---- MODULE Spec2Model ----
\* A model of nucleus::Task (src/nucleus/task.h) and nucleus::BlockOn
\* (src/nucleus/task.cc): coroutine frames, the Task handles that own them,
\* the Awaiter / Continuation hand-off and the one native thread whose call
\* stack of resume() invocations drives everything.
EXTENDS Integers, Sequences, FiniteSets, TLC

\* ---------------------------------------------------------------- bounds
\* Coroutine frames ever allocated in one run.
MaxFrames == 3
\* Move constructions the top-level code performs.
MaxMoves == 1
\* Calls of Task-returning functions the top-level code makes.
MaxTop == 1

VARIABLES
    frames,      \* frames[f]: one coroutine frame (promise_type + progress)
    handles,     \* handles[h]: one Task object (its handle_ member)
    sig,         \* sig[s]: one absl::Notification
    stack,       \* the native call stack of the single thread
    terminated,  \* std::terminate() has been called
    ub,          \* a step had undefined behaviour
    moves,       \* move constructions done by the top-level code
    trace        \* what has happened, in order

vars == <<frames, handles, sig, stack, terminated, ub, moves, trace>>

\* ---------------------------------------------------------------- state
\* The Notification Awaiter::done_ of the Awaiter built on frame f, and the
\* Notification n on Awaiter::Run's stack when it bridges frame f.
done_(f) == f
n(f) == 0 - f

\* promise_type::continuation_ before anybody assigned it: the optional is
\* empty, the pointer is indeterminate (written = FALSE).
Continuation == [written |-> FALSE, caller_continuation |-> 0, done |-> 0]

\* std::suspend_always initial_suspend(): TRUE = the frame suspends before
\* its body.
initial_suspend_never == FALSE
initial_suspend == TRUE

\* Awaiter::await_ready().
await_ready_true == TRUE
await_ready == FALSE

\* promise_type::unhandled_exception(): TRUE = std::terminate().
unhandled_exception_returns == FALSE
unhandled_exception == TRUE

\* What std::exchange(t.handle_, {}) leaves in the moved-from Task h.
exchange_handle_keeps(h) == handles[h].frame
exchange_handle_(h) == 0

\* ~Task's test `if (handle_)`.
TaskOwnsFrame_never(h) == FALSE
TaskOwnsFrame(h) == handles[h].frame # 0

\* The Continuation Awaiter::await_suspend stores in frame g's promise when
\* frame caller awaits it.
AwaiterContinuation_unwritten(caller, g) == frames[g].promise
AwaiterContinuation_skip(caller, g) ==
    [written |-> TRUE,
     caller_continuation |-> frames[caller].promise.caller_continuation,
     done |-> done_(g)]
AwaiterContinuation_shared(caller, g) ==
    [written |-> TRUE, caller_continuation |-> caller,
     done |-> frames[caller].promise.done]
AwaiterContinuation(caller, g) ==
    [written |-> TRUE, caller_continuation |-> caller, done |-> done_(g)]

\* The Continuation Awaiter::Run stores in the bridged frame's promise.
RunContinuation(f) ==
    [written |-> TRUE, caller_continuation |-> 0, done |-> n(f)]

\* Continuation::Resume: done->Notify() is not guarded by anything.
ResumeNotifies_onlyTop(f) == frames[f].promise.caller_continuation = 0
ResumeNotifies(f) == TRUE

\* Continuation::Resume: its first statement is done->Notify() ("fs_notify"),
\* the resume() of the caller ("fs_resume") comes second.
ResumeFirst_caller == "fs_resume"
ResumeFirst == "fs_notify"
AfterNotify == IF ResumeFirst = "fs_notify" THEN "fs_resume" ELSE "fs_ret"
AfterResumeCaller == IF ResumeFirst = "fs_notify" THEN "fs_ret" ELSE "fs_notify"

\* Continuation::Resume: the test caller_continuation.has_value().
HasCaller(f) == frames[f].promise.caller_continuation # 0

\* A frame as the call of a Task-returning function leaves it: status is
\* "initial" (suspended before the body), "running", "awaiting" (suspended at
\* a co_await), or "final" (suspended at the final suspend point); promise is
\* promise_type::continuation_; aw is this_coroutine_ of the Awaiter
\* temporary the frame holds (0: none);
\* creator is the frame whose body called the function (0: the top-level
\* code) and by the frame whose co_await expression it is the operand of
\* (0: none); destroyed counts the calls of handle_.destroy() on it, writes
\* the assignments to continuation_ and reads the calls of
\* continuation_.Resume().
NewFrame(creator, awaitedBy) ==
    [status |-> IF initial_suspend THEN "initial" ELSE "running",
     promise |-> Continuation, aw |-> 0,
     creator |-> creator, by |-> awaitedBy, destroyed |-> 0, faulted |-> FALSE,
     writes |-> 0, reads |-> 0]

\* A Task object: st is "live" or "dead", frame is handle_ (0: empty), owner
\* says where the object lives: 0 a local of the top-level code, f > 0 a
\* temporary inside frame f, -1 the parameter of BlockOn.
NewTask(f, o) == [st |-> "live", frame |-> f, owner |-> o]

Notification == [alive |-> TRUE, notified |-> 0]

Top == stack[Len(stack)]
Running == stack # <<>> /\ ~terminated
At(fn, pc) == Running /\ Top.fn = fn /\ Top.pc = pc
Pop == SubSeq(stack, 1, Len(stack) - 1)
Goto(pc) == [stack EXCEPT ![Len(stack)].pc = pc]
Activation(f, entry) == [fn |-> "resume", frame |-> f, pc |-> entry, h |-> 0]
Call(pc, f, entry) == Append(Goto(pc), Activation(f, entry))
Log(e, x) == Append(trace, <<e, x>>)

Init ==
    /\ frames = <<>>
    /\ handles = <<>>
    /\ sig = [s \in {} |-> 0]
    /\ stack = <<>>
    /\ terminated = FALSE
    /\ ub = FALSE
    /\ moves = 0
    /\ trace = <<>>

\* ---------------------------------------------------------------- ~Task
\* The live Task temporaries that frame f holds.
Temps(f) == {h \in DOMAIN handles : handles[h].st = "live" /\ handles[h].owner = f}

\* The frames handle_.destroy() on frame f tears down: f, and the frames
\* owned by the Task temporaries that are alive inside f.
RECURSIVE Torn(_)
Torn(f) ==
    {f} \cup UNION {Torn(handles[h].frame) : h \in {k \in Temps(f) : handles[k].frame # 0}}

DtorSet(h) == IF TaskOwnsFrame(h) THEN Torn(handles[h].frame) ELSE {}

\* destroy() on a frame that is running, or that was destroyed before.
DtorUndefined(h) ==
    \E g \in DtorSet(h) : frames[g].destroyed > 0 \/ frames[g].status = "running"

FramesAfterDtor(fr, h) ==
    [g \in DOMAIN fr |->
        IF g \in DtorSet(h) THEN [fr[g] EXCEPT !.destroyed = @ + 1] ELSE fr[g]]

HandlesAfterDtor(h) ==
    [k \in DOMAIN handles |->
        IF k = h \/ handles[k].owner \in DtorSet(h)
        THEN [handles[k] EXCEPT !.st = "dead"] ELSE handles[k]]

\* The Awaiter temporaries inside the torn frames die with them.
SigAfterDtor(sg, h) ==
    [s \in DOMAIN sg |->
        IF \E g \in DtorSet(h) : frames[g].aw # 0 /\ s = done_(frames[g].aw)
        THEN [sg[s] EXCEPT !.alive = FALSE] ELSE sg[s]]

\* ---------------------------------------------------------------- top level
\* The top-level code calls a Task-returning function: the frame is
\* allocated and get_return_object() hands out the Task.
MainInvoke ==
    /\ stack = <<>> /\ ~terminated
    /\ Len(frames) < MaxFrames
    /\ Cardinality({h \in DOMAIN handles : handles[h].owner = 0}) - moves < MaxTop
    /\ frames' = Append(frames, NewFrame(0, 0))
    /\ handles' = Append(handles, NewTask(Len(frames) + 1, 0))
    /\ stack' = IF initial_suspend THEN stack
                ELSE <<Activation(Len(frames) + 1, "body")>>
    /\ UNCHANGED <<sig, terminated, ub, moves, trace>>

\* Task(Task&& t): a new Task takes t's handle_, t is left with {}.
MainMove(h) ==
    /\ stack = <<>> /\ ~terminated
    /\ moves < MaxMoves
    /\ handles[h].st = "live" /\ handles[h].owner = 0
    /\ handles' = Append([handles EXCEPT ![h].frame = exchange_handle_(h)],
                         NewTask(handles[h].frame, 0))
    /\ moves' = moves + 1
    /\ UNCHANGED <<frames, sig, stack, terminated, ub, trace>>

\* A Task local of the top-level code goes out of scope: ~Task.
MainDestroy(h) ==
    /\ stack = <<>> /\ ~terminated
    /\ handles[h].st = "live" /\ handles[h].owner = 0
    /\ frames' = FramesAfterDtor(frames, h)
    /\ handles' = HandlesAfterDtor(h)
    /\ sig' = SigAfterDtor(sig, h)
    /\ ub' = (ub \/ DtorUndefined(h))
    /\ terminated' = DtorUndefined(h)
    /\ UNCHANGED <<stack, moves, trace>>

\* BlockOn(std::move(t)): the parameter `task` is move-constructed from t.
MainBlockOn(h) ==
    /\ stack = <<>> /\ ~terminated
    /\ handles[h].st = "live" /\ handles[h].owner = 0
    /\ handles[h].frame # 0
    /\ handles' = Append([handles EXCEPT ![h].frame = exchange_handle_(h)],
                         NewTask(handles[h].frame, -1))
    /\ stack' = <<[fn |-> "BlockOn", frame |-> handles[h].frame,
                   pc |-> "run_enter", h |-> Len(handles) + 1]>>
    /\ trace' = Log("call", handles[h].frame)
    /\ UNCHANGED <<frames, sig, terminated, ub, moves>>

\* ---------------------------------------------------------------- bridge
\* A step whose behaviour the language leaves undefined: it is recorded and
\* the run ends there.
Undefined ==
    /\ ub' = TRUE
    /\ terminated' = TRUE
    /\ UNCHANGED <<frames, handles, sig, stack, moves, trace>>

\* frame f can be resumed from its initial suspend point.
Startable(f) == frames[f].status = "initial" /\ frames[f].destroyed = 0

\* frame c can be resumed at its co_await.
Resumable(c) == frames[c].status = "awaiting" /\ frames[c].destroyed = 0

\* std::coroutine_handle::resume() on frame t, called by the activation on
\* top of the stack, which goes on at pc when the call returns: t goes on
\* from the suspend point it is at. Resuming a frame that is not suspended,
\* is at its final suspend point, or is destroyed, is undefined.
HandleResume(t, pc) ==
    IF Startable(t)
    THEN /\ frames' = [frames EXCEPT ![t].status = "running"]
         /\ stack' = Call(pc, t, "body")
         /\ trace' = Log("start", t)
         /\ UNCHANGED <<handles, sig, terminated, ub, moves>>
    ELSE IF Resumable(t)
    THEN /\ frames' = [frames EXCEPT ![t].status = "running"]
         /\ stack' = Call(pc, t, "await_resume")
         /\ trace' = Log("resume", t)
         /\ UNCHANGED <<handles, sig, terminated, ub, moves>>
    ELSE Undefined

\* Task::Run: Awaiter(handle_) is built; Awaiter::Run: absl::Notification n.
RunEnter ==
    /\ At("BlockOn", "run_enter")
    /\ sig' = (done_(Top.frame) :> Notification) @@ (n(Top.frame) :> Notification) @@ sig
    /\ stack' = Goto("run_write")
    /\ UNCHANGED <<frames, handles, terminated, ub, moves, trace>>

\* Awaiter::Run: continuation_ = Continuation{nullopt, &n}.
RunWrite ==
    /\ At("BlockOn", "run_write")
    /\ frames' = [frames EXCEPT ![Top.frame].promise = RunContinuation(Top.frame),
                                ![Top.frame].writes = @ + 1]
    /\ stack' = Goto("run_resume")
    /\ UNCHANGED <<handles, sig, terminated, ub, moves, trace>>

\* Awaiter::Run: this_coroutine_.resume().
RunResume ==
    /\ At("BlockOn", "run_resume")
    /\ HandleResume(Top.frame, "run_wait")

\* Awaiter::Run: n.WaitForNotification() returns once n is notified; Run
\* returns (n dies), Task::Run returns (the Awaiter temporary dies).
RunWait ==
    /\ At("BlockOn", "run_wait")
    /\ sig[n(Top.frame)].notified > 0
    /\ sig' = [sig EXCEPT ![n(Top.frame)].alive = FALSE,
                          ![done_(Top.frame)].alive = FALSE]
    /\ stack' = Goto("task_dtor")
    /\ trace' = Log("wake", Top.frame)
    /\ UNCHANGED <<frames, handles, terminated, ub, moves>>

\* BlockOn returns: its parameter `task` is destroyed.
BlockOnReturn ==
    /\ At("BlockOn", "task_dtor")
    /\ frames' = FramesAfterDtor(frames, Top.h)
    /\ handles' = HandlesAfterDtor(Top.h)
    /\ sig' = SigAfterDtor(sig, Top.h)
    /\ ub' = (ub \/ DtorUndefined(Top.h))
    /\ terminated' = DtorUndefined(Top.h)
    /\ stack' = Pop
    /\ trace' = Log("return", Top.frame)
    /\ UNCHANGED moves

\* ---------------------------------------------------------------- bodies
\* A body is any sequence of statements, each one of: a throw, a call of a
\* Task-returning function whose Task is dropped, a co_await of a call of a
\* Task-returning function. (A LOG line touches nothing of Task and is left
\* out.) The frames left to allocate bound its length.
InBody(f) == At("resume", "body") /\ Top.frame = f

\* The Task temporary alive in frame f.
TheTemp(f) == CHOOSE h \in Temps(f) : TRUE

\* Frame f calls a Task-returning function and goes on at pc.
Spawn(f, awaitedBy, pc) ==
    /\ Len(frames) < MaxFrames
    /\ frames' = Append(frames, NewFrame(f, awaitedBy))
    /\ handles' = Append(handles, NewTask(Len(frames) + 1, f))
    /\ stack' = IF initial_suspend THEN Goto(pc)
                ELSE Call(pc, Len(frames) + 1, "body")

\* The body of f has run to its end (co_return, or flowing off the end):
\* return_void(), then co_await final_suspend(): f is suspended at its final
\* suspend point and final_awaiter::await_suspend is entered.
ReachFinal(f) ==
    /\ stack' = Goto(ResumeFirst)
    /\ UNCHANGED <<handles, sig, ub, moves>>

CoReturn(f) ==
    /\ InBody(f)
    /\ frames' = [frames EXCEPT ![f].status = "final", ![f].reads = @ + 1]
    /\ trace' = Log("final", f)
    /\ terminated' = terminated
    /\ ReachFinal(f)

\* The body throws: the exception reaches unhandled_exception().
StmtFault(f) ==
    /\ InBody(f)
    /\ IF unhandled_exception
       THEN /\ frames' = [frames EXCEPT ![f].faulted = TRUE]
            /\ trace' = Log("fault", f)
            /\ terminated' = TRUE
            /\ UNCHANGED <<handles, sig, stack, ub, moves>>
       ELSE /\ frames' = [frames EXCEPT ![f].faulted = TRUE,
                                        ![f].status = "final",
                                        ![f].reads = @ + 1]
            /\ trace' = Append(Log("fault", f), <<"final", f>>)
            /\ terminated' = terminated
            /\ ReachFinal(f)

\* `g();` : the Task temporary is created ...
StmtDrop(f) ==
    /\ InBody(f)
    /\ Spawn(f, 0, "drop_dtor")
    /\ UNCHANGED <<sig, terminated, ub, moves, trace>>

\* ... and destroyed at the end of the statement, never awaited.
DropDtor(f) ==
    /\ At("resume", "drop_dtor") /\ Top.frame = f
    /\ frames' = FramesAfterDtor(frames, TheTemp(f))
    /\ handles' = HandlesAfterDtor(TheTemp(f))
    /\ sig' = SigAfterDtor(sig, TheTemp(f))
    /\ ub' = (ub \/ DtorUndefined(TheTemp(f)))
    /\ terminated' = DtorUndefined(TheTemp(f))
    /\ stack' = Goto("body")
    /\ UNCHANGED <<moves, trace>>

\* `co_await g();` : the operand g() is evaluated ...
StmtAwait(f) ==
    /\ InBody(f)
    /\ Spawn(f, f, "co_await")
    /\ UNCHANGED <<sig, terminated, ub, moves, trace>>

\* ... operator co_await() builds the Awaiter in frame f, await_ready() is
\* asked, and unless it says ready f is suspended and await_suspend entered.
CoAwait(f) ==
    /\ At("resume", "co_await") /\ Top.frame = f
    /\ sig' = (done_(handles[TheTemp(f)].frame) :> Notification) @@ sig
    /\ IF await_ready
       THEN /\ frames' = [frames EXCEPT ![f].aw = handles[TheTemp(f)].frame]
            /\ stack' = Goto("await_resume")
            /\ trace' = trace
       ELSE /\ frames' = [frames EXCEPT ![f].aw = handles[TheTemp(f)].frame,
                                        ![f].status = "awaiting"]
            /\ stack' = Goto("as_write")
            /\ trace' = Log("suspend", f)
    /\ UNCHANGED <<handles, terminated, ub, moves>>

\* Awaiter::await_suspend: this_coroutine_.promise().continuation_ = ...
AwaitSuspendWrite(f) ==
    /\ At("resume", "as_write") /\ Top.frame = f
    /\ frames' = [frames EXCEPT ![frames[f].aw].promise =
                                    AwaiterContinuation(f, frames[f].aw),
                                ![frames[f].aw].writes = @ + 1]
    /\ stack' = Goto("as_resume")
    /\ UNCHANGED <<handles, sig, terminated, ub, moves, trace>>

\* The handle Awaiter::await_suspend resumes, in the Awaiter that frame f
\* holds: this_coroutine_, not caller_coroutine_handle.
AwaitSuspendTarget_caller(f) == f
AwaitSuspendTarget(f) == frames[f].aw

\* Awaiter::await_suspend: this_coroutine_.resume().
AwaitSuspendResume(f) ==
    /\ At("resume", "as_resume") /\ Top.frame = f
    /\ HandleResume(AwaitSuspendTarget(f), "as_ret")

\* Awaiter::await_suspend returns, and with it the resume() call that was
\* running frame f's body.
AwaitSuspendReturn(f) ==
    /\ At("resume", "as_ret") /\ Top.frame = f
    /\ stack' = Pop
    /\ UNCHANGED <<frames, handles, sig, terminated, ub, moves, trace>>

\* Frame f goes on after its co_await: await_resume(), then the temporaries
\* of the full expression die, the Awaiter first, the Task after it.
AwaitResume(f) ==
    /\ At("resume", "await_resume") /\ Top.frame = f
    /\ frames' = FramesAfterDtor([frames EXCEPT ![f].aw = 0], TheTemp(f))
    /\ handles' = HandlesAfterDtor(TheTemp(f))
    /\ sig' = SigAfterDtor([sig EXCEPT ![done_(frames[f].aw)].alive = FALSE],
                           TheTemp(f))
    /\ ub' = (ub \/ DtorUndefined(TheTemp(f)))
    /\ terminated' = DtorUndefined(TheTemp(f))
    /\ stack' = Goto("body")
    /\ UNCHANGED <<moves, trace>>

\* ---------------------------------------------------------------- finish
\* frame f's Continuation can notify: the frame is not destroyed, the
\* Continuation was written and its Notification is alive.
CanNotify(f) ==
    /\ frames[f].destroyed = 0
    /\ frames[f].promise.written
    /\ frames[f].promise.done \in DOMAIN sig
    /\ sig[frames[f].promise.done].alive

\* final_awaiter::await_suspend calls continuation_.Resume(): done->Notify().
ResumeNotify(f) ==
    /\ At("resume", "fs_notify") /\ Top.frame = f
    /\ IF ~ResumeNotifies(f)
       THEN /\ stack' = Goto(AfterNotify)
            /\ UNCHANGED <<frames, handles, sig, terminated, ub, moves, trace>>
       ELSE IF CanNotify(f)
       THEN /\ sig' = [sig EXCEPT ![frames[f].promise.done].notified = @ + 1]
            /\ stack' = Goto(AfterNotify)
            /\ trace' = Log("notify", frames[f].promise.done)
            /\ UNCHANGED <<frames, handles, terminated, ub, moves>>
       ELSE Undefined

\* Continuation::Resume: if (caller_continuation.has_value())
\* caller_continuation->resume().
ResumeCaller(f) ==
    /\ At("resume", "fs_resume") /\ Top.frame = f
    /\ IF ~HasCaller(f)
       THEN /\ stack' = Goto(AfterResumeCaller)
            /\ UNCHANGED <<frames, handles, sig, terminated, ub, moves, trace>>
       ELSE IF frames[f].destroyed > 0 THEN Undefined
       ELSE HandleResume(frames[f].promise.caller_continuation, AfterResumeCaller)

\* Resume() and final_awaiter::await_suspend return, and with them the
\* resume() call that was running frame f's body.
ResumeReturn(f) ==
    /\ At("resume", "fs_ret") /\ Top.frame = f
    /\ stack' = Pop
    /\ UNCHANGED <<frames, handles, sig, terminated, ub, moves, trace>>

\* ---------------------------------------------------------------- system
Frames == DOMAIN frames
Handles == DOMAIN handles

Main ==
    \/ MainInvoke
    \/ \E h \in Handles : MainMove(h)
    \/ \E h \in Handles : MainDestroy(h)
    \/ \E h \in Handles : MainBlockOn(h)

Bridge ==
    \/ RunEnter
    \/ RunWrite
    \/ RunResume
    \/ RunWait
    \/ BlockOnReturn

Body ==
    \/ \E f \in Frames : StmtDrop(f)
    \/ \E f \in Frames : DropDtor(f)
    \/ \E f \in Frames : StmtAwait(f)
    \/ \E f \in Frames : CoAwait(f)
    \/ \E f \in Frames : AwaitSuspendWrite(f)
    \/ \E f \in Frames : AwaitSuspendResume(f)
    \/ \E f \in Frames : AwaitSuspendReturn(f)
    \/ \E f \in Frames : AwaitResume(f)
    \/ \E f \in Frames : CoReturn(f)
    \/ \E f \in Frames : ResumeNotify(f)
    \/ \E f \in Frames : ResumeCaller(f)
    \/ \E f \in Frames : ResumeReturn(f)

Fault == \E f \in Frames : StmtFault(f)

Next == Main \/ Bridge \/ Body \/ Fault

Spec == Init /\ [][Next]_vars

\* The thread goes on executing as long as it has an instruction to
\* execute; the bodies here do not throw.
Exec == Bridge \/ Body
NextNoFault == Main \/ Bridge \/ Body
FairSpec == Init /\ [][NextNoFault]_vars /\ WF_vars(Exec)

\* ---------------------------------------------------------------- history
\* The places of event <<e, x>> in the trace.
Pos(e, x) == {i \in DOMAIN trace : trace[i] = <<e, x>>}
Happened(e, x) == Pos(e, x) # {}
Times(e, x) == Cardinality(Pos(e, x))

\* The bridged frame whose chain of awaits frame g belongs to.
RECURSIVE Root(_)
Root(g) == IF frames[g].by = 0 THEN g ELSE Root(frames[g].by)

\* Frame T and every frame transitively awaited from T's body.
ChainOf(T) == {g \in Frames : Root(g) = T}

\* The frames that await, directly or through others, frame g.
RECURSIVE Awaiters(_)
Awaiters(g) ==
    IF frames[g].by = 0 THEN {} ELSE {frames[g].by} \cup Awaiters(frames[g].by)

\* The length of the chain of awaits that leads to frame g.
Depth(g) == Cardinality(Awaiters(g))

\* No step of the model has undefined behaviour.
NoUndefinedBehaviour == ~ub

\* ---------------------------------------------------------------- C1
\* C1: once the wait of BlockOn(T) is over, T's frame and every frame
\* transitively awaited from T's body are at their final suspend point; and
\* BlockOn(T) has returned at most once, exactly once when the thread is
\* back in the top-level code.
C1_BlockOnReturnsAfterChain ==
    \A T \in Frames :
        /\ (Happened("wake", T) \/ Happened("return", T)) =>
               \A g \in ChainOf(T) : frames[g].status = "final"
        /\ Times("return", T) <= Times("call", T)
        /\ Times("call", T) <= 1
        /\ (stack = <<>> /\ ~terminated) => Times("return", T) = Times("call", T)

\* BlockOn has returned for a Task whose chain of awaits is three frames deep.
C1_Witness ==
    \E T \in Frames :
        /\ Happened("return", T)
        /\ \E g \in ChainOf(T) : Depth(g) = 2

\* ---------------------------------------------------------------- C2
\* C2: a frame that has been resumed (it runs, is suspended at a co_await, or
\* is at its final suspend point) has a continuation slot that was written,
\* by Awaiter::await_suspend with the awaiting frame and the Awaiter's
\* done_, or by Awaiter::Run with no caller and Run's n.
C2_SlotWrittenBeforeResume ==
    \A f \in Frames :
        frames[f].status # "initial" =>
            /\ frames[f].promise.written
            /\ frames[f].promise.caller_continuation = frames[f].by
            /\ frames[f].promise.done = IF frames[f].by = 0 THEN n(f) ELSE done_(f)

\* An awaited frame and the bridged frame that awaits it are both past their
\* final suspend, each having read its slot.
C2_Witness ==
    \E f, g \in Frames :
        /\ frames[f].by = 0 /\ frames[g].by = f
        /\ frames[f].status = "final" /\ frames[g].status = "final"
        /\ Happened("notify", n(f)) /\ Happened("notify", done_(g))

\* ---------------------------------------------------------------- C3
\* The frames suspended at a co_await and not resumed since, oldest first,
\* after the first i events; <<-1>> when a resume did not take the frame
\* suspended last, or the bridge was notified while a frame was suspended.
RECURSIVE Pending(_)
Pending(i) ==
    IF i = 0 THEN <<>>
    ELSE LET p == Pending(i - 1)
             e == trace[i]
         IN  IF p = <<-1>> THEN p
             ELSE IF e[1] = "suspend" THEN Append(p, e[2])
             ELSE IF e[1] = "resume"
                  THEN IF p # <<>> /\ p[Len(p)] = e[2]
                       THEN SubSeq(p, 1, Len(p) - 1) ELSE <<-1>>
             ELSE IF e[1] = "notify" /\ e[2] < 0
                  THEN IF p = <<>> THEN p ELSE <<-1>>
             ELSE p

\* C3: frames are resumed in the reverse of the order in which they were
\* suspended, the bridge is notified only when no frame is left suspended,
\* the suspended frames are exactly the frames in state "awaiting", and a
\* frame c is resumed only as the step right after a frame g that c awaits
\* reached its final suspend and notified its signal.
C3_ReverseOrderCascade ==
    /\ Pending(Len(trace)) # <<-1>>
    /\ {f \in Frames : frames[f].status = "awaiting"} =
           {Pending(Len(trace))[k] : k \in DOMAIN Pending(Len(trace))}
    /\ \A i \in DOMAIN trace :
           trace[i][1] = "resume" =>
               /\ i >= 3
               /\ \E g \in Frames :
                      /\ frames[g].by = trace[i][2]
                      /\ trace[i - 2] = <<"final", g>>
                      /\ trace[i - 1] = <<"notify", done_(g)>>

\* A awaits B, B awaits C: C finished, B was resumed, B finished, A was
\* resumed, A finished, the bridge was notified, in this order.
C3_Witness ==
    \E A, B, C \in Frames :
        /\ frames[A].by = 0 /\ frames[B].by = A /\ frames[C].by = B
        /\ \E i \in Pos("final", C), j \in Pos("resume", B), k \in Pos("final", B),
              l \in Pos("resume", A), m \in Pos("final", A), o \in Pos("notify", n(A)) :
               i < j /\ j < k /\ k < l /\ l < m /\ m < o

\* ---------------------------------------------------------------- C4
\* C4: the step after a frame reaches its final suspend notifies the signal
\* of its slot, whoever the frame is; the step after that resumes the slot's
\* caller if the slot has one and is no resume if it has none; nothing else
\* resumes a suspended frame or notifies a signal; a bridged frame's slot
\* has no caller.
C4_NotifyThenResumeCaller ==
    /\ \A i \in DOMAIN trace :
           /\ trace[i][1] = "final" =>
                  LET c == frames[trace[i][2]].promise
                  IN  /\ i + 1 <= Len(trace) => trace[i + 1] = <<"notify", c.done>>
                      /\ i + 2 <= Len(trace) =>
                             IF c.caller_continuation # 0
                             THEN trace[i + 2] = <<"resume", c.caller_continuation>>
                             ELSE trace[i + 2][1] # "resume"
           /\ trace[i][1] = "resume" => i > 1 /\ trace[i - 1][1] = "notify"
           /\ trace[i][1] = "notify" => i > 1 /\ trace[i - 1][1] = "final"
    /\ \A f \in Frames :
           /\ (At("resume", "fs_resume") \/ At("resume", "fs_ret")) /\ Top.frame = f =>
                  sig[frames[f].promise.done].notified = 1
           /\ Happened("start", f) /\ Happened("call", f) =>
                  frames[f].promise.caller_continuation = 0

\* An awaited frame finished, notified and resumed its caller; the bridged
\* frame finished, notified, and the step after was the bridge waking up.
C4_Witness ==
    \E f, g \in Frames :
        /\ frames[g].by = f /\ Happened("call", f)
        /\ \E i \in Pos("final", g) :
               i + 2 <= Len(trace) /\ trace[i + 2] = <<"resume", f>>
        /\ \E i \in Pos("final", f) :
               i + 2 <= Len(trace) /\ trace[i + 2] = <<"wake", f>>

\* ---------------------------------------------------------------- C5
\* The frame allocated last, while the statement that called its function
\* is still being executed.
JustCreated(f) ==
    /\ f = Len(frames)
    /\ (At("resume", "co_await") \/ At("resume", "drop_dtor"))
    /\ Top.frame = frames[f].creator

\* C5: a frame leaves its not-yet-started state only through the resume()
\* of Awaiter::await_suspend or of Awaiter::Run: it has run nothing right
\* after the call that allocated it, whatever has started is the operand of a
\* co_await or was passed to BlockOn, and a frame that is neither stays
\* not-yet-started, also when its Task is destroyed.
C5_BodyStartsOnlyWhenResumed ==
    \A f \in Frames :
        /\ JustCreated(f) => frames[f].status = "initial" /\ ~Happened("start", f)
        /\ frames[f].status # "initial" => Happened("start", f)
        /\ Happened("start", f) => frames[f].by # 0 \/ Happened("call", f)
        /\ frames[f].by = 0 /\ ~Happened("call", f) =>
               frames[f].status = "initial" /\ frames[f].promise = Continuation

\* A BlockOn has returned, and a Task that a body of its chain created and
\* dropped was destroyed without its frame ever having started.
C5_Witness ==
    \E T, f \in Frames :
        /\ Happened("return", T)
        /\ frames[f].creator # 0 /\ frames[f].by = 0
        /\ frames[f].destroyed = 1 /\ frames[f].status = "initial"

\* ---------------------------------------------------------------- C6
\* The frames whose chain of awaits passes through g, g included.
Under(g) == {x \in Frames : x = g \/ g \in Awaiters(x)}

\* The frame an event is about (a signal's number is its frame's, negated
\* for the bridge's).
FrameOf(e) == IF e[2] < 0 THEN 0 - e[2] ELSE e[2]

\* C6: of two Tasks awaited one after the other by the same body, the first
\* is at its final suspend before the second starts; every Task a body
\* awaited is at its final suspend before the body itself finishes, hence
\* before BlockOn returns; and between the start and the finish of a body
\* nothing happens but in that body and in the bodies it awaits.
C6_SequentialAwaitsInProgramOrder ==
    /\ \A g1, g2 \in Frames :
           g1 < g2 /\ frames[g1].by # 0 /\ frames[g1].by = frames[g2].by
                   /\ frames[g2].status # "initial" =>
               /\ frames[g1].status = "final"
               /\ \A i \in Pos("final", g1), j \in Pos("start", g2) : i < j
    /\ \A g \in Frames :
           frames[g].by # 0 /\ frames[frames[g].by].status = "final" =>
               /\ frames[g].status = "final"
               /\ \A i \in Pos("final", g), j \in Pos("final", frames[g].by) : i < j
    /\ \A g \in Frames : \A i \in Pos("start", g) : \A k \in DOMAIN trace :
           i < k /\ (\A j \in Pos("final", g) : k < j) => FrameOf(trace[k]) \in Under(g)

\* foo awaits hello() then world() and BlockOn(foo()) has returned.
C6_Witness ==
    \E A, T1, T2 \in Frames :
        /\ T1 < T2 /\ frames[T1].by = A /\ frames[T2].by = A
        /\ Happened("start", T1) /\ Happened("start", T2)
        /\ Happened("return", A)

\* ---------------------------------------------------------------- C7
\* C7: when a body has thrown, the process is terminated and that is the
\* last thing that happened: the frame is still in its body and its signal
\* is not notified, every frame that awaits it, directly or not, is still
\* suspended at its co_await, the bridge's signal is not notified and its
\* wait and BlockOn have not returned.
C7_FaultTerminatesBeforeSignalling ==
    \A f \in Frames :
        frames[f].faulted =>
            /\ terminated
            /\ trace[Len(trace)] = <<"fault", f>>
            /\ frames[f].status = "running"
            /\ sig[frames[f].promise.done].notified = 0
            /\ \A c \in Awaiters(f) :
                   /\ frames[c].status = "awaiting"
                   /\ sig[frames[c].promise.done].notified = 0
            /\ sig[n(Root(f))].notified = 0
            /\ ~Happened("wake", Root(f)) /\ ~Happened("return", Root(f))
            /\ stack # <<>> /\ stack[1].fn = "BlockOn" /\ stack[1].pc = "run_wait"

\* A body two awaits below the bridged Task has thrown.
C7_Witness ==
    \E f \in Frames : frames[f].faulted /\ Depth(f) = 2

\* ---------------------------------------------------------------- C8
\* C8: with bodies that do not throw, a thread that is inside BlockOn is
\* eventually back in the top-level code.
C8_BlockOnEventuallyReturns == (stack # <<>>) ~> (stack = <<>>)

\* BlockOn has returned for a Task whose body is empty: it created and
\* awaited nothing.
C8_Witness ==
    \E T \in Frames :
        /\ Happened("return", T)
        /\ \A g \in Frames : g # T => frames[g].creator # T

\* ---------------------------------------------------------------- C9
\* The live Task objects whose handle_ refers to frame f.
Owners(f) == {h \in Handles : handles[h].st = "live" /\ handles[h].frame = f}

\* A step that move-constructs a Task: a Task is added, no frame is.
IsMove == Len(handles') = Len(handles) + 1 /\ Len(frames') = Len(frames)

\* C9: a frame that is not destroyed is owned by exactly one live Task, a
\* destroyed frame by none, and no frame is destroyed twice; a move
\* construction gives the new Task the handle of its source and leaves the
\* source empty; the destruction of an empty Task changes no frame and no
\* signal.
C9_ExclusiveOwnership ==
    /\ [](\A f \in Frames :
              /\ frames[f].destroyed <= 1
              /\ Cardinality(Owners(f)) = IF frames[f].destroyed = 0 THEN 1 ELSE 0)
    /\ [][IsMove =>
              \E h \in Handles :
                  /\ handles[h].st = "live"
                  /\ handles'[Len(handles')].frame = handles[h].frame
                  /\ handles'[h].frame = 0
                  /\ \A k \in Handles \ {h} : handles'[k] = handles[k]]_vars
    /\ [][\A h \in Handles :
              handles[h].st = "live" /\ handles[h].frame = 0 /\ handles'[h].st = "dead"
                  => frames' = frames /\ sig' = sig]_vars

\* A Task was moved from and then destroyed, and the frame it used to own
\* is alive, owned by the Task it was moved into.
C9_Witness ==
    /\ moves > 0
    /\ \E h, k \in Handles :
           /\ h < k
           /\ handles[h].st = "dead" /\ handles[h].frame = 0
           /\ handles[k].st = "live" /\ handles[k].frame # 0
           /\ frames[handles[k].frame].destroyed = 0

\* ---------------------------------------------------------------- C10
\* The frames created, directly or not, by the body of frame T, T included.
RECURSIVE Origin(_)
Origin(g) == IF frames[g].creator = 0 THEN g ELSE Origin(frames[g].creator)

\* Frame f, at its final suspend, has notified its signal and called
\* resume() on its caller if it has one.
Signalled(f) ==
    /\ frames[f].promise.written
    /\ sig[frames[f].promise.done].notified = 1
    /\ \A i \in Pos("final", f) :
           /\ i + 1 <= Len(trace) /\ trace[i + 1] = <<"notify", frames[f].promise.done>>
           /\ frames[f].promise.caller_continuation # 0 =>
                  i + 2 <= Len(trace)
                  /\ trace[i + 2] = <<"resume", frames[f].promise.caller_continuation>>

\* C10: no frame is destroyed twice, and a destroyed frame was destroyed by
\* the destruction of a Task that owned it; a destroyed frame never started,
\* or is at its final suspend with its signalling done, so it is neither
\* running nor suspended at a co_await; a bridged frame is destroyed only
\* after the bridge's wait has returned; and when BlockOn has returned every
\* frame its chain created has been destroyed once.
C10_DestroyedOnceWhenFinished ==
    \A f \in Frames :
        /\ frames[f].destroyed <= 1
        /\ frames[f].destroyed = 1 =>
               /\ \E h \in Handles : handles[h].st = "dead" /\ handles[h].frame = f
               /\ frames[f].status \in {"initial", "final"}
               /\ frames[f].status = "initial" => ~Happened("start", f)
               /\ frames[f].status = "final" => Signalled(f)
               /\ Happened("call", f) => Happened("wake", f)
        /\ Happened("return", Origin(f)) => frames[f].destroyed = 1

\* BlockOn has returned and destroyed the bridged frame, whose chain held a
\* frame destroyed at its final suspend and one destroyed unstarted.
C10_Witness ==
    \E T, f, g \in Frames :
        /\ Happened("return", T) /\ frames[T].destroyed = 1
        /\ frames[f].by = T /\ frames[f].status = "final" /\ frames[f].destroyed = 1
        /\ Origin(g) = T /\ frames[g].status = "initial" /\ frames[g].destroyed = 1

\* ---------------------------------------------------------------- C11
\* The frames of the chain of bridged frame T whose continuation slot has
\* been assigned.
Recorded(T) == {g \in ChainOf(T) : frames[g].promise.written}

\* C11 as stated: the slot of every awaited frame records the bridge's
\* signal of its chain, and no awaited frame notifies a signal of its own.
C11_SharedBridgeSignal ==
    \A g \in Frames :
        frames[g].by # 0 /\ frames[g].promise.written =>
            /\ frames[g].promise.done = n(Root(g))
            /\ ~Happened("notify", done_(g))

\* C11: every chain has one completion signal that is waited on, the n of
\* the bridge, recorded in the slot of the bridged frame only; the slot of
\* every awaited frame records the done_ of its own Awaiter, a signal of its
\* own that no other slot records, and an awaited frame that has resumed its
\* caller has notified that signal first; the thread waits on n alone.
C11_OneWaitedSignalPerChain ==
    \A T \in Frames :
        frames[T].by = 0 =>
            /\ T \in Recorded(T) => frames[T].promise.done = n(T)
            /\ \A g \in Recorded(T) \ {T} :
                   /\ frames[g].promise.done = done_(g)
                   /\ frames[g].promise.done # n(T)
                   /\ \A i \in Pos("resume", frames[g].by) :
                          trace[i - 1] = <<"notify", frames[g].promise.done>>
                              => sig[done_(g)].notified = 1
            /\ \A g, h \in Recorded(T) :
                   g # h => frames[g].promise.done # frames[h].promise.done
            /\ \A g \in ChainOf(T) \ {T} : ~Happened("wake", g)

\* A bridged frame and a frame it awaited have both finished; each notified
\* the signal of its own slot, and the two signals are different objects.
C11_Witness ==
    \E T, g \in Frames :
        /\ frames[g].by = T /\ Happened("wake", T)
        /\ frames[T].promise.done = n(T) /\ frames[g].promise.done = done_(g)
        /\ Happened("notify", n(T)) /\ Happened("notify", done_(g))

\* ---------------------------------------------------------------- C12
\* The thread is inside the Awaiter::await_suspend called for frame A's
\* co_await, before the return of its this_coroutine_.resume().
InAwaitSuspend(A) ==
    /\ Running
    /\ Top.fn = "resume" /\ Top.frame = A
    /\ Top.pc \in {"as_write", "as_resume"}

\* C12 as stated: in no state is a frame suspended at its co_await while the
\* frame it awaits has not been resumed.
C12_AwaitedRunsBeforeSuspended ==
    \A A \in Frames :
        frames[A].status = "awaiting" => Happened("start", frames[A].aw)

\* C12: frame A is suspended first and the frame B it awaits is resumed by
\* the Awaiter::await_suspend called for that suspension: A is suspended
\* with B not yet resumed only while the thread is inside that call, up to
\* its this_coroutine_.resume(), and the step that follows the suspension of
\* A is the start of B, so A is never resumed with B not started.
C12_AwaitedResumedBySuspend ==
    \A A \in Frames :
        /\ frames[A].status = "awaiting" =>
               /\ frames[A].aw # 0 /\ frames[frames[A].aw].by = A
               /\ ~Happened("start", frames[A].aw) =>
                      InAwaitSuspend(A) /\ frames[frames[A].aw].status = "initial"
        /\ \A i \in Pos("suspend", A) :
               i < Len(trace) =>
                   \E B \in Frames : frames[B].by = A /\ trace[i + 1] = <<"start", B>>

\* Frame A is suspended at its co_await and await_suspend has written the
\* slot of the frame A awaits, which has not been resumed yet.
C12_Witness ==
    \E A \in Frames :
        /\ frames[A].status = "awaiting"
        /\ At("resume", "as_resume") /\ Top.frame = A
        /\ frames[frames[A].aw].promise.written
        /\ frames[frames[A].aw].status = "initial"

\* ---------------------------------------------------------------- C13
\* C13: no Notification, the n of a bridge or the done_ of an Awaiter, is
\* notified more than once; the wait of a BlockOn call returns at most once,
\* and when it has returned the bridge's n was notified exactly once, by the
\* bridged frame; the done_ of the Awaiter that Task::Run builds is never
\* notified.
C13_NotifiedAtMostOnce ==
    /\ \A s \in DOMAIN sig :
           sig[s].notified <= 1 /\ Times("notify", s) = sig[s].notified
    /\ \A T \in Frames :
           /\ Times("wake", T) <= 1 /\ Times("return", T) <= 1
           /\ Times("call", T) <= 1
           /\ Happened("wake", T) =>
                  /\ Times("notify", n(T)) = 1
                  /\ \A i \in Pos("notify", n(T)) : trace[i - 1] = <<"final", T>>
           /\ frames[T].by = 0 => ~Happened("notify", done_(T))

\* A BlockOn call has returned whose bridged frame awaited two Tasks: the
\* bridge's n and both Awaiters' done_ were notified once each.
C13_Witness ==
    \E T, g, h \in Frames :
        /\ g # h /\ frames[g].by = T /\ frames[h].by = T
        /\ Happened("return", T)
        /\ sig[n(T)].notified = 1
        /\ sig[done_(g)].notified = 1 /\ sig[done_(h)].notified = 1

\* ---------------------------------------------------------------- C14
\* The thread is at the resume() that follows the assignment of frame f's
\* slot, in the await_suspend of the frame that awaits f or in the Run that
\* bridges f.
AtFirstResume(f) ==
    /\ Running
    /\ \/ Top.fn = "resume" /\ Top.pc = "as_resume"
          /\ Top.frame = frames[f].by /\ frames[Top.frame].aw = f
       \/ Top.fn = "BlockOn" /\ Top.pc = "run_resume" /\ Top.frame = f

Executing == {f \in Frames : frames[f].status = "running"}

\* The activations on the native stack that are inside
\* Continuation::Resume.
InResume == {k \in DOMAIN stack :
                 stack[k].fn = "resume"
                 /\ stack[k].pc \in {"fs_notify", "fs_resume", "fs_ret"}}

\* C15: at most one frame is executing its body, and it is the one of the
\* innermost resume() on the native stack; while an awaited frame has
\* started and not finished, each frame on its chain of awaiters is
\* suspended at the co_await of the next; a frame whose Resume() is on the
\* native stack, its caller resumed or about to be, is at its final
\* suspend.
C15_OneFrameExecuting ==
    /\ Cardinality(Executing) <= 1
    /\ \A f \in Executing :
           /\ stack # <<>> /\ Top.fn = "resume" /\ Top.frame = f
           /\ \A a \in Awaiters(f) : frames[a].status = "awaiting"
    /\ \A f \in Frames :
           frames[f].by # 0 /\ frames[f].status \in {"running", "awaiting"} =>
               frames[frames[f].by].status = "awaiting" /\ frames[frames[f].by].aw = f
    /\ \A k \in InResume : frames[stack[k].frame].status = "final"

\* A finished frame has resumed its caller: the caller is executing its
\* body on top of the finished frame's Resume(), and the finished frame is
\* at its final suspend, not yet destroyed.
C15_Witness ==
    \E k \in InResume :
        /\ k + 1 = Len(stack)
        /\ frames[stack[k].frame].status = "final"
        /\ frames[stack[k].frame].destroyed = 0
        /\ Top.frame = frames[stack[k].frame].by
        /\ Executing = {Top.frame}

\* ---------------------------------------------------------------- C16
\* C16: frame A has been resumed once for each of its co_awaits, but for the
\* one it is suspended at; each resume of A answers the latest suspension of
\* A, is made by the Resume() of the frame B that this suspension started,
\* after the final suspend of B, with A neither suspended again, resumed nor
\* finished in between, and comes before A's own final suspend; the resumed
\* A goes on at await_resume of that co_await, with B finished.
C16_ResumedOncePerAwait ==
    \A A \in Frames :
        /\ Times("suspend", A) =
               Times("resume", A) + (IF frames[A].status = "awaiting" THEN 1 ELSE 0)
        /\ \A i \in Pos("resume", A) :
               /\ \E j \in Pos("suspend", A), B \in Frames :
                      /\ j < i /\ frames[B].by = A
                      /\ trace[j + 1] = <<"start", B>>
                      /\ trace[i - 2] = <<"final", B>>
                      /\ \A k \in (j + 1)..(i - 1) :
                             trace[k] \notin {<<"suspend", A>>, <<"resume", A>>,
                                              <<"final", A>>}
               /\ \A k \in Pos("final", A) : i < k
        /\ At("resume", "await_resume") /\ Top.frame = A =>
               /\ frames[A].status = "running"
               /\ frames[A].aw # 0 /\ frames[frames[A].aw].status = "final"

\* Frame A awaited two Tasks one after the other and was resumed once for
\* each, both times after the awaited frame's final suspend; A has
\* finished.
C16_Witness ==
    \E A, B, C \in Frames :
        /\ B # C /\ frames[B].by = A /\ frames[C].by = A
        /\ Times("suspend", A) = 2 /\ Times("resume", A) = 2
        /\ Happened("final", B) /\ Happened("final", C)
        /\ frames[A].status = "final"

\* ---------------------------------------------------------------- C17
\* The this_coroutine_.resume() of Awaiter::Run has returned and the thread
\* is about to call n.WaitForNotification() for bridged frame T.
ResumeReturnedToRun(T) ==
    /\ ~terminated
    /\ Len(stack) = 1
    /\ stack[1].fn = "BlockOn" /\ stack[1].frame = T /\ stack[1].pc = "run_wait"

\* C17: when the resume() called by Awaiter::Run has returned, the bridge's
\* n is alive and already notified, the bridged frame and every frame it
\* awaited are at their final suspend, so WaitForNotification() returns
\* without waiting.
C17_NotifiedBeforeWait ==
    \A T \in Frames :
        ResumeReturnedToRun(T) =>
            /\ sig[n(T)].alive /\ sig[n(T)].notified = 1
            /\ Happened("notify", n(T))
            /\ \A g \in ChainOf(T) : Happened("start", g) => frames[g].status = "final"
            /\ ENABLED RunWait

\* The resume() of Run has returned for a bridged frame that awaited another
\* frame, and n is notified before the wait is entered.
C17_Witness ==
    \E T, g \in Frames :
        /\ ResumeReturnedToRun(T)
        /\ frames[g].by = T /\ frames[g].status = "final"
        /\ sig[n(T)].notified = 1

\* ---------------------------------------------------------------- C18
\* C18: when a frame at its final suspend is about to call done->Notify(),
\* the frame is not destroyed and the Notification its slot records is
\* alive; the done_ of the Awaiter of an awaited frame is dead only once it
\* was notified and the awaiting frame resumed after that, and the n and the
\* Awaiter of a bridge are dead only once the wait has returned.
C18_SignalAliveAtNotify ==
    /\ At("resume", "fs_notify") => CanNotify(Top.frame)
    /\ \A g \in Frames :
           done_(g) \in DOMAIN sig /\ ~sig[done_(g)].alive /\ frames[g].by # 0 =>
               /\ sig[done_(g)].notified = 1
               /\ \E i \in Pos("notify", done_(g)) :
                      i < Len(trace) /\ trace[i + 1] = <<"resume", frames[g].by>>
    /\ \A T \in Frames :
           /\ n(T) \in DOMAIN sig /\ ~sig[n(T)].alive =>
                  sig[n(T)].notified = 1 /\ Happened("wake", T)
           /\ n(T) \in DOMAIN sig /\ ~sig[done_(T)].alive => Happened("wake", T)

\* The done_ of an awaited frame's Awaiter and the n of the bridge have both
\* been notified while alive and have been destroyed since.
C18_Witness ==
    \E T, g \in Frames :
        /\ frames[g].by = T /\ n(T) \in DOMAIN sig /\ done_(g) \in DOMAIN sig
        /\ ~sig[done_(g)].alive /\ sig[done_(g)].notified = 1
        /\ ~sig[n(T)].alive /\ sig[n(T)].notified = 1

\* ---------------------------------------------------------------- C19
\* The frames whose state (promise, continuation slot, body, or an Awaiter
\* stored in the frame) the next statement of the thread reads or writes.
\* Run reaches the promise through handle_; the body and await_resume work
\* in the frame itself, and the end of the co_await expression destroys the
\* awaited frame; await_suspend reads this_coroutine_ of the Awaiter in the
\* awaiting frame and writes, then resumes, the awaited frame; Resume()
\* reads the slot of the finished frame and resumes its caller. Nothing
\* follows this_coroutine_.resume() in await_suspend, nor
\* caller_continuation->resume() in Resume(), nor continuation_.Resume() in
\* final_awaiter::await_suspend: the returns touch no frame.
Accessed ==
    IF ~Running THEN {}
    ELSE IF Top.fn = "BlockOn"
         THEN IF Top.pc \in {"run_write", "run_resume"} THEN {Top.frame} ELSE {}
    ELSE IF Top.pc \in {"as_ret", "fs_ret"} THEN {}
    ELSE IF Top.pc \in {"as_write", "as_resume", "await_resume"}
         THEN {Top.frame, frames[Top.frame].aw} \ {0}
    ELSE IF Top.pc = "fs_resume"
         THEN {Top.frame, frames[Top.frame].promise.caller_continuation} \ {0}
    ELSE {Top.frame}

\* The resume() activations on the native stack whose frame is destroyed.
Orphaned == {k \in DOMAIN stack :
                 stack[k].fn = "resume" /\ frames[stack[k].frame].destroyed > 0}

\* C19: the next statement of the thread never touches a destroyed frame;
\* a resume() whose frame was destroyed while it was on the native stack has
\* nothing left to do but return, from Resume() of the destroyed frame or
\* from the await_suspend that started a frame since finished; and an
\* await_suspend that is left to return belongs to an Awaiter that may be
\* gone, which it does not touch either.
C19_NoAccessAfterDestroy ==
    /\ \A g \in Accessed : frames[g].destroyed = 0
    /\ \A k \in Orphaned : stack[k].pc \in {"as_ret", "fs_ret"}
    /\ \A k \in DOMAIN stack :
           stack[k].fn = "resume" /\ stack[k].pc = "fs_ret" =>
               frames[stack[k].frame].status = "final"
    /\ ~ub

\* An awaited frame was destroyed by its resumed caller, which is running;
\* the destroyed frame's Resume() and, below it, the await_suspend that
\* started it are still on the native stack, and the Awaiter of that
\* await_suspend is gone.
C19_Witness ==
    \E k \in Orphaned :
        /\ 1 < k /\ k < Len(stack) /\ Running
        /\ stack[k].pc = "fs_ret"
        /\ stack[k - 1].pc = "as_ret"
        /\ stack[k - 1].frame = frames[stack[k].frame].by
        /\ ~sig[done_(stack[k].frame)].alive
        /\ frames[Top.frame].status = "running"

\* ---------------------------------------------------------------- C20
\* The number of resume() calls that are active on the native stack.
ResumeDepth == Cardinality({k \in DOMAIN stack : stack[k].fn = "resume"})

\* The resume() calls made so far by Continuation::Resume on frames of the
\* chain of bridged frame T.
ResumesOf(T) == {i \in DOMAIN trace :
                     trace[i][1] = "resume" /\ trace[i][2] \in ChainOf(T)}

\* The awaited frames of the chain of T that an await_suspend has resumed.
StartedAwaits(T) == {g \in ChainOf(T) \ {T} : Happened("start", g)}

\* The awaited frames of the chain of T whose co_await expression is over:
\* the Task temporary of the expression has destroyed the frame.
AwaitsCompleted(T) == {g \in ChainOf(T) \ {T} : frames[g].destroyed = 1}

\* C20: within a BlockOn call on frame T, until T has reached its final
\* suspend no resume() has returned: one resume() by Run, one per awaited
\* frame started and one per caller resumed are all active on the native
\* stack; so when T reaches its final suspend the stack holds
\* 1 + 2 * (number of co_awaits completed in the chain) nested resume()
\* calls.
C20_ResumeCallsStayNested ==
    \A T \in Frames :
        stack # <<>> /\ stack[1].frame = T /\ Happened("start", T) =>
            /\ frames[T].status # "final" =>
                   ResumeDepth = 1 + Cardinality(StartedAwaits(T))
                                   + Cardinality(ResumesOf(T))
            /\ At("resume", ResumeFirst) /\ Top.frame = T =>
                   /\ ResumeDepth = 1 + 2 * Cardinality(AwaitsCompleted(T))
                   /\ AwaitsCompleted(T) = ChainOf(T) \ {T}

\* The bridged frame reaches its final suspend after two co_awaits made one
\* after the other, neither nested in the other: five resume() calls are
\* nested on the native stack.
C20_Witness ==
    \E T \in Frames :
        /\ At("resume", ResumeFirst) /\ Top.frame = T /\ stack[1].frame = T
        /\ Cardinality(AwaitsCompleted(T)) = 2
        /\ \A g \in AwaitsCompleted(T) : frames[g].by = T
        /\ ResumeDepth = 5
====
